---- MODULE Spec2Model ----
(***************************************************************************)
(* Few-shot graph classification (fs-grl): the episode collator            *)
(* (EpisodeBatch.from_episode_list), the MetaData artifact and the         *)
(* base/novel split of the datamodule.                                     *)
(*                                                                         *)
(* Tensors are modelled as sequences, a Data graph as the record of the    *)
(* two attributes the code reads (y, num_nodes), Python exceptions as the  *)
(* status field of a result record.                                        *)
(***************************************************************************)
EXTENDS Integers, Sequences, FiniteSets

VARIABLES
    episode_hparams,  \* collator: the EpisodeHParams handed to from_episode_list
    episode_list,     \* collator: the list of Episode handed to from_episode_list
    batch,            \* collator: the outcome of the last from_episode_list call
    metadata,         \* metadata: the MetaData object m
    data_json,        \* metadata: the content of <path>/data.json, or Absent
    meta_pc,          \* metadata: "new", "saved" (save was called), "loaded"
    save_status,      \* metadata: outcome of MetaData.save
    load_status,      \* metadata: outcome of MetaData.load
    loaded,           \* metadata: the MetaData returned by MetaData.load
    disk,             \* datamodule: the split file and what load_data reads
    classes_split_path,   \* datamodule: self.classes_split_path
    dm_status,            \* datamodule: "new", "constructed", or the exception of __init__
    classes_split,        \* datamodule: self.classes_split
    class_to_label_dict,  \* datamodule: self.class_to_label_dict
    data_list,            \* datamodule: self.data_list, a list of graph objects
    graph_y,              \* datamodule: the label y of every graph object
    labels_split,         \* datamodule: self.labels_split (base_labels, novel_labels)
    data_list_by_label,   \* datamodule: self.data_list_by_label
    split_samples,        \* datamodule: what split_base_novel_samples returned
    config,               \* datamodule: which datamodule class, and its constructor arguments
    train_dataset,        \* datamodule: self.train_dataset
    val_datasets,         \* datamodule: self.val_datasets (the empty list stands for None)
    test_datasets,        \* datamodule: self.test_datasets (the empty list stands for None)
    setup_pc,             \* datamodule: the statement of setup that runs next, or "idle"
    setup_status,         \* datamodule: outcome of the last setup call
    remap,                \* datamodule: the last convert_to_local_labels call
    remapped,             \* datamodule: stages converted so far by the running setup call
    pred_labels,          \* lightning module: the predictions given to map_pred_labels_to_global
    mapped_labels,        \* lightning module: what map_pred_labels_to_global returned or raised
    tl_pc,                \* transfer target: the hook the trainer calls next
    embedder,             \* transfer target: the embedder's state, mode and requires_grad
    classifier,           \* transfer target: the classifier's parameters
    initial_state_file,   \* transfer target: the file at initial_state_path
    batch_hooks,          \* transfer target: what has run for the current batch
    query_eval            \* transfer target: the state the last query evaluation ran with

collator_vars == <<episode_hparams, episode_list, batch>>
meta_vars == <<metadata, data_json, meta_pc, save_status, load_status, loaded>>
setup_vars == <<config, train_dataset, val_datasets, test_datasets, setup_pc,
                setup_status, remap, remapped>>
dm_vars == <<disk, classes_split_path, dm_status, classes_split, class_to_label_dict,
             data_list, graph_y, labels_split, data_list_by_label, split_samples,
             setup_vars>>
pl_vars == <<pred_labels, mapped_labels>>
tl_vars == <<tl_pc, embedder, classifier, initial_state_file, batch_hooks, query_eval>>
vars == <<collator_vars, meta_vars, dm_vars, pl_vars, tl_vars>>

(***************************************************************************)
(* Bounds of the model.                                                    *)
(***************************************************************************)
MaxEpisodes == 2      \* B: episodes per collated batch
MaxFeatureDim == 2    \* node feature dimensions 1..MaxFeatureDim
MaxGraphs == 3        \* graphs in the loaded dataset
MaxParam == 2         \* module states 0..MaxParam

LabelValues == {0, 1}
Graphs == {[y |-> 0, num_nodes |-> 1], [y |-> 1, num_nodes |-> 2]}

(***************************************************************************)
(* Generic sequence helpers.                                               *)
(***************************************************************************)
RECURSIVE Cat(_)
\* [x for s in seqs for x in s]
Cat(seqs) == IF seqs = <<>> THEN <<>> ELSE Head(seqs) \o Cat(Tail(seqs))

RECURSIVE SumSeq(_)
SumSeq(s) == IF s = <<>> THEN 0 ELSE Head(s) + SumSeq(Tail(s))

\* [v] * n
Repeat(v, n) == [j \in 1..n |-> v]

(***************************************************************************)
(* EpisodeHParams and Episode.                                             *)
(***************************************************************************)
EpisodeHParams(n, k, q) ==
    [num_classes_per_episode |-> n,
     num_supports_per_class  |-> k,
     num_queries_per_class   |-> q]

Episode(supports, queries, labels) ==
    [supports |-> supports, queries |-> queries, labels |-> labels]

(***************************************************************************)
(* EpisodeBatch.from_episode_list, field by field.                         *)
(***************************************************************************)
\* the mutant of BatchSupports: episodes taken in reverse list order
BatchSupportsReversed(eps) ==
    Cat([i \in 1..Len(eps) |-> eps[Len(eps) + 1 - i].supports])

BatchSupports(eps) == Cat([i \in 1..Len(eps) |-> eps[i].supports])

BatchQueries(eps) == Cat([i \in 1..Len(eps) |-> eps[i].queries])

BatchLabels(eps) == Cat([i \in 1..Len(eps) |-> eps[i].labels])

\* the mutant of SupportsLen: node counts summed over the queries
SupportsLenOverQueries(eps) ==
    [i \in 1..Len(eps) |->
        SumSeq([j \in 1..Len(eps[i].queries) |-> eps[i].queries[j].num_nodes])]

SupportsLen(eps) ==
    [i \in 1..Len(eps) |->
        SumSeq([j \in 1..Len(eps[i].supports) |-> eps[i].supports[j].num_nodes])]

QueriesLen(eps) ==
    [i \in 1..Len(eps) |->
        SumSeq([j \in 1..Len(eps[i].queries) |-> eps[i].queries[j].num_nodes])]

\* the mutant of AssignmentVector: the block size forgets the classes factor
AssignmentVectorNoClasses(batch_size, per_class, C) ==
    [i \in 1..batch_size |-> Repeat(i - 1, per_class)]

\* torch.tensor([[i] * per_class * C for i in range(batch_size)]): a
\* two-dimensional tensor of shape (batch_size, per_class * C)
AssignmentVector(batch_size, per_class, C) ==
    [i \in 1..batch_size |-> Repeat(i - 1, per_class * C)]

\* the mutant of EpisodeCosineTargets: itertools.product(labels, queries)
EpisodeCosineTargetsClassMajor(episode) ==
    LET nq == Len(episode.queries)
        nl == Len(episode.labels)
    IN  [p \in 1..(nq * nl) |->
            IF episode.queries[((p - 1) % nq) + 1].y = episode.labels[((p - 1) \div nq) + 1]
            THEN 1 ELSE -1]

\* ((query.y == label) * 2 - 1) for query, label in
\* itertools.product(episode.queries, episode.labels)
EpisodeCosineTargets(episode) ==
    LET nq == Len(episode.queries)
        nl == Len(episode.labels)
    IN  [p \in 1..(nq * nl) |->
            IF episode.queries[((p - 1) \div nl) + 1].y = episode.labels[((p - 1) % nl) + 1]
            THEN 1 ELSE -1]

\* the mutant of CosineTargets: every query is compared with the first
\* episode's labels
CosineTargetsFirstLabels(eps) ==
    Cat([i \in 1..Len(eps) |->
            EpisodeCosineTargets(Episode(eps[i].supports, eps[i].queries, eps[1].labels))])

CosineTargets(eps) == Cat([i \in 1..Len(eps) |-> EpisodeCosineTargets(eps[i])])

\* tensor.reshape(-1, ncols) of a one-dimensional tensor whose length is a
\* multiple of ncols
Reshape(t, ncols) ==
    [r \in 1..(Len(t) \div ncols) |-> SubSeq(t, (r - 1) * ncols + 1, r * ncols)]

\* the mutant of ArgMax: the index of the minimum
ArgMin(row) ==
    (CHOOSE c \in 1..Len(row) :
        /\ \A d \in 1..Len(row) : row[d] >= row[c]
        /\ \A d \in 1..(c - 1) : row[d] > row[c]) - 1

\* tensor.argmax over one row: the 0-based index of the first maximal value
ArgMax(row) ==
    (CHOOSE c \in 1..Len(row) :
        /\ \A d \in 1..Len(row) : row[d] <= row[c]
        /\ \A d \in 1..(c - 1) : row[d] < row[c]) - 1

LabelTargets(cosine_targets, ncols) ==
    LET targets == Reshape(cosine_targets, ncols)
    IN  [r \in 1..Len(targets) |-> ArgMax(targets[r])]

NoBatch ==
    [status |-> "none", supports |-> <<>>, queries |-> <<>>, labels |-> <<>>,
     assignment_vectors |-> [support |-> <<>>, queries |-> <<>>],
     supports_len |-> <<>>, queries_len |-> <<>>, num_episodes |-> 0,
     cosine_targets |-> <<>>, label_targets |-> <<>>]

Raised(exception) == [NoBatch EXCEPT !.status = exception]

\* EpisodeBatch.from_episode_list(episode_list, episode_hparams): the
\* EpisodeBatch it returns, or the exception it raises.  Batch.from_data_list
\* is the external graph-batching primitive: the batched graphs are kept as
\* the list it was given.
from_episode_list(eps, hp) ==
    LET K == hp.num_supports_per_class
        C == hp.num_classes_per_episode
        Q == hp.num_queries_per_class
        batch_size == Len(eps)
        cosine_targets == CosineTargets(eps)
    IN  IF cosine_targets = <<>>
        THEN Raised("RuntimeError")      \* torch.cat([])
        ELSE IF Len(cosine_targets) % C # 0
        THEN Raised("RuntimeError")      \* reshape(-1, C)
        ELSE [status |-> "ok",
              supports |-> BatchSupports(eps),
              queries |-> BatchQueries(eps),
              labels |-> BatchLabels(eps),
              assignment_vectors |->
                  [support |-> AssignmentVector(batch_size, K, C),
                   queries |-> AssignmentVector(batch_size, Q, C)],
              supports_len |-> SupportsLen(eps),
              queries_len |-> QueriesLen(eps),
              num_episodes |-> batch_size,
              cosine_targets |-> cosine_targets,
              label_targets |-> LabelTargets(cosine_targets, C)]

(***************************************************************************)
(* The inputs of the collator.                                             *)
(***************************************************************************)
\* <<N, K, Q>>
HParamsChoices ==
    {EpisodeHParams(c[1], c[2], c[3]) :
        c \in {<<1, 1, 1>>, <<2, 1, 1>>, <<1, 2, 1>>, <<1, 1, 2>>, <<2, 2, 1>>}}

\* the graph of the pool that carries the given label
GraphOf(label) == CHOOSE g \in Graphs : g.y = label

\* episodes of the shape their hyper-parameters promise: any N labels, the K
\* supports of the j-th class carrying the j-th label (class-major blocks),
\* any N*Q queries
ShapedEpisodes(hp) ==
    LET N == hp.num_classes_per_episode
        K == hp.num_supports_per_class
        Q == hp.num_queries_per_class
    IN  {Episode([j \in 1..(N * K) |-> GraphOf(l[((j - 1) \div K) + 1])], q, l) :
            q \in [1..(N * Q) -> Graphs],
            l \in [1..N -> LabelValues]}

\* episodes of another shape: one support, query or label too many
MisshapedEpisodes(hp) ==
    LET N == hp.num_classes_per_episode
        K == hp.num_supports_per_class
        Q == hp.num_queries_per_class
        g == [y |-> 0, num_nodes |-> 1]
    IN  {Episode(Repeat(g, N * K + ds), Repeat(g, N * Q + dq), Repeat(0, N + dl)) :
            <<ds, dq, dl>> \in {<<1, 0, 0>>, <<0, 1, 0>>, <<0, 0, 1>>, <<0, 1, 1>>}}

Episodes(hp) == ShapedEpisodes(hp) \cup MisshapedEpisodes(hp)

IsShaped(episode, hp) ==
    /\ Len(episode.supports) = hp.num_classes_per_episode * hp.num_supports_per_class
    /\ Len(episode.queries) = hp.num_classes_per_episode * hp.num_queries_per_class
    /\ Len(episode.labels) = hp.num_classes_per_episode

AllShaped == \A i \in 1..Len(episode_list) : IsShaped(episode_list[i], episode_hparams)

(***************************************************************************)
(* The collator as a state machine: the loader hands a list of episodes    *)
(* to from_episode_list; the same list may be collated again.              *)
(***************************************************************************)
InitCollator ==
    /\ episode_hparams \in HParamsChoices
    /\ \E b \in 1..MaxEpisodes : episode_list \in [1..b -> Episodes(episode_hparams)]
    /\ batch = NoBatch

\* the collator is not in use
CollatorIdle ==
    /\ episode_hparams = EpisodeHParams(1, 1, 1)
    /\ episode_list = <<>>
    /\ batch = NoBatch

\* the mutant of Collate: the call pops the last query of the last episode
CollateConsuming ==
    /\ batch' = from_episode_list(episode_list, episode_hparams)
    /\ LET b == Len(episode_list)
           last == episode_list[b]
       IN  episode_list' =
               [episode_list EXCEPT ![b].queries =
                   SubSeq(last.queries, 1, Len(last.queries) - 1)]
    /\ UNCHANGED <<episode_hparams, meta_vars, dm_vars, pl_vars, tl_vars>>

Collate ==
    /\ batch' = from_episode_list(episode_list, episode_hparams)
    /\ UNCHANGED <<episode_list, episode_hparams, meta_vars, dm_vars, pl_vars, tl_vars>>

(***************************************************************************)
(* Properties of the collator.                                             *)
(***************************************************************************)
B == Len(episode_list)
N == episode_hparams.num_classes_per_episode
K == episode_hparams.num_supports_per_class
Q == episode_hparams.num_queries_per_class

Collated == batch.status # "none"

\* every episode has N labels and N*Q queries
QueriesLabelsShaped ==
    \A e \in 1..B : /\ Len(episode_list[e].queries) = N * Q
                    /\ Len(episode_list[e].labels) = N

\* every episode has N*K supports and N*Q queries
SupportsQueriesShaped ==
    \A e \in 1..B : /\ Len(episode_list[e].supports) = N * K
                    /\ Len(episode_list[e].queries) = N * Q

\* every episode's labels are N distinct values and every query carries one
\* of them
LabelsDistinctAndCovering ==
    \A e \in 1..B :
        /\ Cardinality({episode_list[e].labels[l] : l \in 1..Len(episode_list[e].labels)}) = N
        /\ \A q \in 1..Len(episode_list[e].queries) :
               \E l \in 1..Len(episode_list[e].labels) :
                   episode_list[e].queries[q].y = episode_list[e].labels[l]

\* C1: for B episodes with N labels and N*Q queries each, from_episode_list
\* returns cosine_targets of length B*N*Q*N, episode by episode, query-major
\* and class-minor, the entry of (query q, label l) being +1 if q's true
\* label equals l and -1 otherwise.
C1_CosineTargetsLayout ==
    (Collated /\ QueriesLabelsShaped) =>
        /\ batch.status = "ok"
        /\ Len(batch.cosine_targets) = B * N * Q * N
        /\ \A e \in 1..B : \A q \in 1..(N * Q) : \A l \in 1..N :
               batch.cosine_targets[(e - 1) * N * Q * N + (q - 1) * N + l] =
                   IF episode_list[e].queries[q].y = episode_list[e].labels[l]
                   THEN 1 ELSE -1

\* two episodes of two classes whose targets hold both signs
C1_Witness ==
    /\ batch.status = "ok" /\ QueriesLabelsShaped
    /\ B = 2 /\ N = 2
    /\ \E p \in 1..Len(batch.cosine_targets) : batch.cosine_targets[p] = 1
    /\ \E p \in 1..Len(batch.cosine_targets) : batch.cosine_targets[p] = -1
    /\ episode_list[1].labels # episode_list[2].labels

\* C2: when every episode's labels are N distinct values and every query
\* carries one of them, each row of cosine_targets reshaped to (B*N*Q, N) has
\* exactly one +1 and N-1 entries -1, and label_targets[r] is the column of
\* that +1.
C2_OneHotRows ==
    (Collated /\ QueriesLabelsShaped /\ LabelsDistinctAndCovering) =>
        /\ batch.status = "ok"
        /\ Len(batch.label_targets) = B * N * Q
        /\ \A r \in 1..(B * N * Q) :
               /\ Cardinality({c \in 1..N : batch.cosine_targets[(r - 1) * N + c] = 1}) = 1
               /\ Cardinality({c \in 1..N : batch.cosine_targets[(r - 1) * N + c] = -1}) = N - 1
               /\ batch.label_targets[r] \in 0..(N - 1)
               /\ batch.cosine_targets[(r - 1) * N + batch.label_targets[r] + 1] = 1

\* two classes, and a query whose true label is the second candidate
C2_Witness ==
    /\ batch.status = "ok" /\ QueriesLabelsShaped /\ LabelsDistinctAndCovering
    /\ N = 2 /\ B = 2
    /\ \E r \in 1..Len(batch.label_targets) : batch.label_targets[r] = 1
    /\ \E r \in 1..Len(batch.label_targets) : batch.label_targets[r] = 0

\* C3: supports, queries and labels are the episodes' lists concatenated in
\* episode-list order, each episode's items contiguous and in their original
\* order: B*N*K supports, B*N*Q queries, B*N labels, num_episodes = B.
C3_Concatenation ==
    (Collated /\ AllShaped) =>
        /\ batch.status = "ok"
        /\ Len(batch.supports) = B * N * K
        /\ Len(batch.queries) = B * N * Q
        /\ Len(batch.labels) = B * N
        /\ batch.num_episodes = B
        /\ \A e \in 1..B :
               /\ \A j \in 1..(N * K) :
                      batch.supports[(e - 1) * N * K + j] = episode_list[e].supports[j]
               /\ \A j \in 1..(N * Q) :
                      batch.queries[(e - 1) * N * Q + j] = episode_list[e].queries[j]
               /\ \A j \in 1..N :
                      batch.labels[(e - 1) * N + j] = episode_list[e].labels[j]

\* two episodes that differ in their supports, queries and labels
C3_Witness ==
    /\ batch.status = "ok" /\ AllShaped /\ B = 2
    /\ episode_list[1].supports # episode_list[2].supports
    /\ episode_list[1].queries # episode_list[2].queries
    /\ episode_list[1].labels # episode_list[2].labels
    /\ Len(batch.supports) > B

\* C4: the assignment vectors hold B*N*K (supports) and B*N*Q (queries)
\* entries; read row by row, the entry at flattened position p is the index
\* 0..B-1 of the episode the p-th flattened support (query) came from: B
\* blocks of constant size N*K (N*Q) holding 0, 1, ..., B-1.  The code keeps
\* each block as one row of a (B, N*K) tensor.
C4_AssignmentVectors ==
    (Collated /\ AllShaped) =>
        /\ batch.status = "ok"
        /\ Len(batch.assignment_vectors.support) = B
        /\ Len(batch.assignment_vectors.queries) = B
        /\ LET flat_s == Cat(batch.assignment_vectors.support)
               flat_q == Cat(batch.assignment_vectors.queries)
           IN  /\ Len(flat_s) = B * N * K
               /\ Len(flat_s) = Len(batch.supports)
               /\ Len(flat_q) = B * N * Q
               /\ Len(flat_q) = Len(batch.queries)
               /\ \A p \in 1..(B * N * K) :
                      /\ flat_s[p] \in 0..(B - 1)
                      /\ flat_s[p] = (p - 1) \div (N * K)
                      /\ batch.supports[p] =
                             episode_list[flat_s[p] + 1].supports[p - flat_s[p] * N * K]
               /\ \A p \in 1..(B * N * Q) :
                      /\ flat_q[p] \in 0..(B - 1)
                      /\ flat_q[p] = (p - 1) \div (N * Q)
                      /\ batch.queries[p] =
                             episode_list[flat_q[p] + 1].queries[p - flat_q[p] * N * Q]

\* two episodes, blocks longer than one entry
C4_Witness ==
    /\ batch.status = "ok" /\ AllShaped /\ B = 2 /\ N * K = 2
    /\ batch.assignment_vectors.support = <<(<<0, 0>>), (<<1, 1>>)>>

\* the number of (position, node) pairs of a graph list
NodeCount(graphs) ==
    Cardinality(UNION {{<<j, u>> : u \in 1..graphs[j].num_nodes} : j \in 1..Len(graphs)})

\* C5: supports_len[i] is the sum of num_nodes over exactly the supports of
\* episode i, queries_len[i] the sum over exactly its queries; both have
\* length B.
C5_NodeCounts ==
    Collated =>
        /\ batch.status = "ok" =>
               /\ Len(batch.supports_len) = B
               /\ Len(batch.queries_len) = B
               /\ \A i \in 1..B :
                      /\ batch.supports_len[i] = NodeCount(episode_list[i].supports)
                      /\ batch.queries_len[i] = NodeCount(episode_list[i].queries)
        /\ AllShaped => batch.status = "ok"

\* two episodes whose supports and queries weigh differently
C5_Witness ==
    /\ batch.status = "ok" /\ AllShaped /\ B = 2
    /\ batch.supports_len[1] # batch.supports_len[2]
    /\ batch.supports_len[1] # batch.queries_len[1]
    /\ batch.queries_len[1] # batch.queries_len[2]

\* the B single-episode batches of the episode list
Singles == [i \in 1..B |-> from_episode_list(<<episode_list[i]>>, episode_hparams)]

\* the named field of the single-episode batches, concatenated in order
CatSingles(singles, field) == Cat([i \in 1..Len(singles) |-> singles[i][field]])

\* C6: concatenating, in order, the supports_len, queries_len, cosine_targets
\* and label_targets of the B single-episode batches gives the fields of the
\* one batch built from the whole list.
C6_CollationComposes ==
    (Collated /\ AllShaped) =>
        LET singles == Singles
        IN  /\ batch.status = "ok"
            /\ \A i \in 1..B : singles[i].status = "ok"
            /\ batch.supports_len = CatSingles(singles, "supports_len")
            /\ batch.queries_len = CatSingles(singles, "queries_len")
            /\ batch.cosine_targets = CatSingles(singles, "cosine_targets")
            /\ batch.label_targets = CatSingles(singles, "label_targets")

\* two different episodes, collated together
C6_Witness ==
    /\ batch.status = "ok" /\ AllShaped /\ B = 2 /\ N = 2
    /\ episode_list[1] # episode_list[2]
    /\ Singles[1].cosine_targets # Singles[2].cosine_targets
    /\ Singles[1].supports_len # Singles[2].supports_len

\* C7: collation fails with ShapeMismatchError, and returns no EpisodeBatch,
\* whenever some episode's supports length differs from N*K or its queries
\* length from N*Q.
C7_ShapeMismatchRaised ==
    (Collated /\ ~SupportsQueriesShaped) => batch.status = "ShapeMismatchError"

\* C8: from_episode_list leaves its inputs as they were (the episodes'
\* supports, queries and labels, every graph's label and node count, the
\* hyper-parameters), and collating the same list again yields an equal batch.
C8_NoSideEffect ==
    [][/\ episode_list' = episode_list
       /\ episode_hparams' = episode_hparams
       /\ Collated => batch' = batch]_vars

\* a batch of two episodes has been returned
C8_Witness ==
    /\ batch.status = "ok" /\ B = 2 /\ AllShaped
    /\ batch.num_episodes = 2


(***************************************************************************)
(* MetaData, MetaData.save and MetaData.load.                              *)
(*                                                                         *)
(* A Python dict key is the record of its type and its text, so that the   *)
(* int 0 and the str "0" are different keys.  A JSON document is kept as   *)
(* the value json.loads gives back for it.                                 *)
(***************************************************************************)
PyInt(text) == [type |-> "int", text |-> text]
PyStr(text) == [type |-> "str", text |-> text]

Absent == [exists |-> FALSE]
File(document) == [exists |-> TRUE, document |-> document]

\* MetaData.__init__
MetaData(class_to_label, feature_dim, hparams, split) ==
    [classes_to_label_dict |-> class_to_label,
     feature_dim |-> feature_dim,
     num_classes |-> Cardinality(DOMAIN class_to_label),
     episode_hparams |-> hparams,
     classes_split |-> split]

NoMetaData == [none |-> TRUE]

\* the attributes of an EpisodeHParams instance: the three dataclass fields
EpisodeHParamsAttributes ==
    {"num_classes_per_episode", "num_supports_per_class", "num_queries_per_class"}

\* json.dumps writes every dict key as a string
JsonObject(dict) ==
    LET keys == {PyStr(k.text) : k \in DOMAIN dict}
    IN  [k \in keys |-> dict[CHOOSE o \in DOMAIN dict : o.text = k.text]]

\* json.dumps(data, ...) of the four-entry dict of MetaData.save
JsonDumps(data) ==
    [classes_to_label_dict |-> JsonObject(data.classes_to_label_dict),
     feature_dim |-> data.feature_dim,
     episode_hparams |-> data.episode_hparams,
     classes_split |-> data.classes_split]

ClassDicts ==
    {[k \in {PyInt("0"), PyInt("1")} |-> IF k.text = "0" THEN 0 ELSE 1],
     [k \in {PyStr("a"), PyStr("b")} |-> IF k.text = "a" THEN 1 ELSE 0],
     [k \in {PyStr("a")} |-> 0]}

ClassesSplits ==
    {[base |-> <<"a">>, novel |-> <<"b">>],
     [base |-> <<"b", "a">>, novel |-> <<>>]}

MetaDatas ==
    {MetaData(d, f, hp, cs) : d \in ClassDicts, f \in 1..MaxFeatureDim,
                              hp \in HParamsChoices, cs \in ClassesSplits}

\* data.json files written by an earlier run
EarlierFiles ==
    {File(JsonDumps([classes_to_label_dict |-> d, feature_dim |-> 1,
                     episode_hparams |-> EpisodeHParams(2, 1, 1),
                     classes_split |-> [base |-> <<"a">>, novel |-> <<"b">>]])) :
        d \in ClassDicts}

InitMetaData ==
    /\ metadata \in MetaDatas
    /\ data_json \in {Absent} \cup EarlierFiles
    /\ meta_pc = "new"
    /\ save_status = "none"
    /\ load_status = "none"
    /\ loaded = NoMetaData

MetaIdle ==
    /\ metadata = NoMetaData
    /\ data_json = Absent
    /\ meta_pc = "idle"
    /\ save_status = "none"
    /\ load_status = "none"
    /\ loaded = NoMetaData

\* MetaData.save(dst_path): the dict literal is evaluated entry by entry;
\* its third entry calls self.episode_hparams.as_dict(), and data.json is
\* written only after the whole dict is built
MetaDataSave ==
    /\ meta_pc = "new"
    /\ IF "as_dict" \in EpisodeHParamsAttributes
       THEN /\ data_json' = File(JsonDumps(
                   [classes_to_label_dict |-> metadata.classes_to_label_dict,
                    feature_dim |-> metadata.feature_dim,
                    episode_hparams |-> metadata.episode_hparams,
                    classes_split |-> metadata.classes_split]))
            /\ save_status' = "ok"
       ELSE /\ save_status' = "AttributeError"
            /\ UNCHANGED data_json
    /\ meta_pc' = "saved"
    /\ UNCHANGED <<metadata, load_status, loaded, collator_vars, dm_vars, pl_vars, tl_vars>>

\* MetaData.load(src_path)
MetaDataLoad ==
    /\ meta_pc = "saved"
    /\ IF ~data_json.exists
       THEN /\ load_status' = "FileNotFoundError"
            /\ UNCHANGED loaded
       ELSE LET data == data_json.document
            IN  IF DOMAIN data.episode_hparams # EpisodeHParamsAttributes
                THEN /\ load_status' = "TypeError"
                     /\ UNCHANGED loaded
                ELSE /\ load_status' = "ok"
                     /\ loaded' = MetaData(data.classes_to_label_dict,
                                           data.feature_dim,
                                           data.episode_hparams,
                                           data.classes_split)
    /\ meta_pc' = "loaded"
    /\ UNCHANGED <<metadata, data_json, save_status, collator_vars, dm_vars, pl_vars, tl_vars>>

\* C9: for every MetaData m, saving m with MetaData.save and loading the
\* result with MetaData.load succeeds and yields a MetaData whose
\* classes_to_label_dict, feature_dim, classes_split and episode_hparams
\* equal those of m.
C9_MetaDataRoundTrip ==
    (meta_pc = "loaded") =>
        /\ save_status = "ok"
        /\ load_status = "ok"
        /\ loaded.classes_to_label_dict = metadata.classes_to_label_dict
        /\ loaded.feature_dim = metadata.feature_dim
        /\ loaded.classes_split = metadata.classes_split
        /\ loaded.episode_hparams = metadata.episode_hparams

(***************************************************************************)
(* GraphFewShotDataModule: construction and the base/novel split.          *)
(*                                                                         *)
(* A graph is an object, named by its position in the list load_data       *)
(* returns; graph_y holds the label every object carries.  A class is a    *)
(* string, a label an integer.                                             *)
(***************************************************************************)
Classes == {"a", "b", "c"}
DatasetClassToLabel == [c \in Classes |-> CASE c = "a" -> 0 [] c = "b" -> 1 [] c = "c" -> 2]
DatasetLabels == {DatasetClassToLabel[c] : c \in Classes}

\* the base/novel split files
SplitFiles ==
    {[base |-> <<"a">>, novel |-> <<"b">>],
     [base |-> <<"b", "a">>, novel |-> <<"c">>],
     [base |-> <<"c">>, novel |-> <<"a", "c">>],
     [base |-> <<"a">>, novel |-> <<"d">>],
     [base |-> <<"a">>, novel |-> <<"c", "b">>]}

\* what load_data returns: the graphs' labels in list order, and the
\* class-to-label dict
Datasets ==
    {[ys |-> ys, class_to_label_dict |-> DatasetClassToLabel] :
        ys \in UNION {[1..n -> DatasetLabels] : n \in 1..MaxGraphs}}

NoDict == [keys |-> <<>>, get |-> <<>>]
NoSplit == [base |-> <<>>, novel |-> <<>>]
NoSamples == [returned |-> FALSE, base |-> <<>>, novel |-> <<>>]

\* the query/support split file, as load_query_support_idxs returns it
QuerySupportFile == [query_idxs |-> <<0>>, support_idxs |-> <<1>>]

\* a ratio given as a float is held as the fraction it stands for
Half == [num |-> 1, den |-> 2]
ThreeQuarters == [num |-> 3, den |-> 4]

\* the constructor arguments of a GraphMetaDataModule or a
\* GraphTransferDataModule, besides classes_split_path
DataModuleConfig(variant, separated, path, train_episodes, test_episodes) ==
    [variant |-> variant,
     separated_query_support |-> separated,
     query_support_split_path |-> path,
     support_ratio |-> Half,
     num_train_episodes |-> train_episodes,
     num_test_episodes |-> test_episodes,
     train_val_split_ratio |-> ThreeQuarters]

Configs ==
    {DataModuleConfig("meta", FALSE, "None", 1, 2),
     DataModuleConfig("meta", TRUE, "None", 2, 2),
     DataModuleConfig("meta", TRUE, "query_support.json", 2, 1),
     DataModuleConfig("transfer", FALSE, "None", 1, 2)}

NoConfig == DataModuleConfig("None", FALSE, "None", 0, 0)

\* the samples argument of a dataset: a list of graphs, the dict
\* {"supports", "queries"} of two lists of graphs, or the dict
\* {"query_idxs", "support_idxs"} of two lists of indices
Samples(form, list, supports, queries, query_idxs, support_idxs) ==
    [form |-> form, list |-> list, supports |-> supports, queries |-> queries,
     query_idxs |-> query_idxs, support_idxs |-> support_idxs]

ListSamples(list) == Samples("list", list, <<>>, <<>>, <<>>, <<>>)

\* the graphs a samples argument holds
Handed(samples) == samples.list \o samples.supports \o samples.queries

\* a dataset as its constructor call leaves it: the arguments, and the labels
\* the graphs handed over carry at that moment (n_episodes 0: not an argument
\* of this dataset class)
Dataset(kind, samples, n_episodes, stage_labels, separated, y) ==
    [kind |-> kind, samples |-> samples, n_episodes |-> n_episodes,
     stage_labels |-> stage_labels, separated_query_support |-> separated,
     sample_labels |-> [i \in 1..Len(Handed(samples)) |-> y[Handed(samples)[i]]]]

NoDataset == Dataset("None", ListSamples(<<>>), 0, <<>>, FALSE, <<>>)

NoRemap == [called |-> FALSE, stage |-> "None", stage_labels |-> <<>>, samples |-> <<>>,
            before |-> <<>>, after |-> <<>>, mapping |-> <<>>, status |-> "None"]

RECURSIVE Insert(_, _)
Insert(x, sorted_list) ==
    IF sorted_list = <<>> THEN <<x>>
    ELSE IF x <= Head(sorted_list) THEN <<x>> \o sorted_list
    ELSE <<Head(sorted_list)>> \o Insert(x, Tail(sorted_list))

RECURSIVE sorted(_)
\* sorted(list) of a list of integers
sorted(list) == IF list = <<>> THEN <<>> ELSE Insert(Head(list), sorted(Tail(list)))

Elements(list) == {list[i] : i \in 1..Len(list)}

\* get_labels_split: the sorted labels of the base and of the novel classes
get_labels_split(class_to_label, base_classes, novel_classes) ==
    [base  |-> sorted([i \in 1..Len(base_classes) |-> class_to_label[base_classes[i]]]),
     novel |-> sorted([i \in 1..Len(novel_classes) |-> class_to_label[novel_classes[i]]])]

\* the length of the longest prefix of list whose graphs all carry label key
RunLength(list, y, key) ==
    IF \A i \in 1..Len(list) : y[list[i]] = key
    THEN Len(list)
    ELSE (CHOOSE i \in 1..Len(list) :
              /\ y[list[i]] # key
              /\ \A j \in 1..(i - 1) : y[list[j]] = key) - 1

RECURSIVE groupby(_, _)
\* itertools.groupby(list, key=attrgetter("y")): one (key, group) pair per
\* run of consecutive graphs with equal y
groupby(list, y) ==
    IF list = <<>> THEN <<>>
    ELSE LET key == y[Head(list)]
             n == RunLength(list, y, key)
         IN  <<[key |-> key, group |-> SubSeq(list, 1, n)]>>
                 \o groupby(SubSeq(list, n + 1, Len(list)), y)

RECURSIVE DictOf(_)
\* {key: list(value) for key, value in pairs}: a key that comes again keeps
\* its place in the dict and takes the later value
DictOf(pairs) ==
    IF pairs = <<>> THEN NoDict
    ELSE LET front == DictOf(SubSeq(pairs, 1, Len(pairs) - 1))
             pair == pairs[Len(pairs)]
         IN  [keys |-> IF pair.key \in Elements(front.keys)
                       THEN front.keys ELSE Append(front.keys, pair.key),
              get |-> [k \in Elements(front.keys) \cup {pair.key} |->
                          IF k = pair.key THEN pair.group ELSE front.get[k]]]

\* flatten(list_of_lists)
flatten(lists) == Cat(lists)

\* [samples for key, samples in dict.items() if key in labels], flattened
SamplesWithLabelIn(dict, labels) ==
    flatten([i \in 1..Len(dict.keys) |->
                IF dict.keys[i] \in Elements(labels) THEN dict.get[dict.keys[i]] ELSE <<>>])

\* split_base_novel_samples()
split_base_novel_samples(dict, split) ==
    [returned |-> TRUE,
     base  |-> SamplesWithLabelIn(dict, split.base),
     novel |-> SamplesWithLabelIn(dict, split.novel)]

InitDataModule ==
    /\ disk \in [classes_split : SplitFiles, dataset : Datasets,
                 query_support : {QuerySupportFile}]
    /\ classes_split_path \in {"None", "split.json"}
    /\ dm_status = "new"
    /\ classes_split = NoSplit
    /\ class_to_label_dict = <<>>
    /\ data_list = <<>>
    /\ graph_y = <<>>
    /\ labels_split = NoSplit
    /\ data_list_by_label = NoDict
    /\ split_samples = NoSamples
    /\ config \in Configs
    /\ train_dataset = NoDataset
    /\ val_datasets = <<>>
    /\ test_datasets = <<>>
    /\ setup_pc = "idle"
    /\ setup_status = "None"
    /\ remap = NoRemap
    /\ remapped = {}

DataModuleIdle ==
    /\ disk = [classes_split |-> NoSplit,
               dataset |-> [ys |-> <<>>, class_to_label_dict |-> <<>>],
               query_support |-> QuerySupportFile]
    /\ classes_split_path = "None"
    /\ dm_status = "idle"
    /\ classes_split = NoSplit
    /\ class_to_label_dict = <<>>
    /\ data_list = <<>>
    /\ graph_y = <<>>
    /\ labels_split = NoSplit
    /\ data_list_by_label = NoDict
    /\ split_samples = NoSamples
    /\ config = NoConfig
    /\ train_dataset = NoDataset
    /\ val_datasets = <<>>
    /\ test_datasets = <<>>
    /\ setup_pc = "idle"
    /\ setup_status = "None"
    /\ remap = NoRemap
    /\ remapped = {}

\* a variant of __init__ that loads the data before it reads the split
ConstructLoadingFirst ==
    /\ dm_status = "new"
    /\ data_list' = [i \in 1..Len(disk.dataset.ys) |-> i]
    /\ graph_y' = disk.dataset.ys
    /\ class_to_label_dict' = disk.dataset.class_to_label_dict
    /\ IF classes_split_path = "None"
       THEN /\ dm_status' = "NotImplementedError"
            /\ UNCHANGED <<classes_split, labels_split, data_list_by_label>>
       ELSE LET split == disk.classes_split
            IN  /\ classes_split' = split
                /\ IF (Elements(split.base) \cup Elements(split.novel))
                          \subseteq DOMAIN disk.dataset.class_to_label_dict
                   THEN /\ labels_split' =
                               get_labels_split(disk.dataset.class_to_label_dict,
                                                split.base, split.novel)
                        /\ data_list_by_label' =
                               DictOf(groupby([i \in 1..Len(disk.dataset.ys) |-> i],
                                              disk.dataset.ys))
                        /\ dm_status' = "constructed"
                   ELSE /\ dm_status' = "KeyError"
                        /\ UNCHANGED <<labels_split, data_list_by_label>>
    /\ UNCHANGED <<disk, classes_split_path, split_samples, setup_vars,
                   collator_vars, meta_vars, pl_vars, tl_vars>>

\* GraphFewShotDataModule.__init__: get_classes_split, load_data,
\* get_labels_split, then the grouping of data_list by label
Construct ==
    /\ dm_status = "new"
    /\ IF classes_split_path = "None"
       THEN \* get_classes_split raises before anything is loaded
            /\ dm_status' = "NotImplementedError"
            /\ UNCHANGED <<classes_split, class_to_label_dict, data_list, graph_y,
                           labels_split, data_list_by_label>>
       ELSE LET split == disk.classes_split
                ys == disk.dataset.ys
                class_to_label == disk.dataset.class_to_label_dict
                objects == [i \in 1..Len(ys) |-> i]
            IN  /\ classes_split' = split
                /\ data_list' = objects
                /\ graph_y' = ys
                /\ class_to_label_dict' = class_to_label
                /\ IF (Elements(split.base) \cup Elements(split.novel))
                          \subseteq DOMAIN class_to_label
                   THEN /\ labels_split' =
                               get_labels_split(class_to_label, split.base, split.novel)
                        /\ data_list_by_label' = DictOf(groupby(objects, ys))
                        /\ dm_status' = "constructed"
                   ELSE \* class_to_label_dict[stage_cls] of an unknown class
                        /\ dm_status' = "KeyError"
                        /\ UNCHANGED <<labels_split, data_list_by_label>>
    /\ UNCHANGED <<disk, classes_split_path, split_samples, setup_vars,
                   collator_vars, meta_vars, pl_vars, tl_vars>>

\* a call of split_base_novel_samples on the constructed datamodule
SplitBaseNovel ==
    /\ dm_status = "constructed"
    /\ split_samples' = split_base_novel_samples(data_list_by_label, labels_split)
    /\ UNCHANGED <<disk, classes_split_path, dm_status, classes_split, class_to_label_dict,
                   data_list, graph_y, labels_split, data_list_by_label, setup_vars,
                   collator_vars, meta_vars, pl_vars, tl_vars>>

\* the graphs of the loaded list whose label is one of labels
GraphsLabelled(labels) ==
    {data_list[i] : i \in {j \in 1..Len(data_list) : graph_y[data_list[j]] \in Elements(labels)}}

\* the pool holds exactly the graphs of the set, each once
HoldsExactly(pool, graphs) ==
    /\ Elements(pool) = graphs
    /\ Len(pool) = Cardinality(graphs)

\* C10: in whatever order the graphs appear in the loaded list,
\* split_base_novel_samples returns a base pool holding exactly the graphs
\* whose label is in base_labels (each once) and a novel pool holding exactly
\* the graphs whose label is in novel_labels (each once).
C10_SplitByLabel ==
    split_samples.returned =>
        /\ HoldsExactly(split_samples.base, GraphsLabelled(labels_split.base))
        /\ HoldsExactly(split_samples.novel, GraphsLabelled(labels_split.novel))

(***************************************************************************)
(* GraphMetaDataModule.setup, GraphTransferDataModule.setup and the         *)
(* metadata property.  The transfer setup mutates the labels of the graphs  *)
(* between the statements that build its datasets, so it runs statement by  *)
(* statement; the meta setup touches no graph and runs as one step.         *)
(***************************************************************************)
Stages == {"None", "fit", "test"}

\* math.ceil(ratio * n)
Ceil(ratio, n) == (ratio.num * n + ratio.den - 1) \div ratio.den

\* the orders np.random.shuffle can leave np.arange(n) in
Shuffles(n) == {p \in [1..n -> 1..n] : \A i, j \in 1..n : p[i] = p[j] => i = j}

\* split_query_support(data_list), idxs being the shuffled indices
split_query_support(list, idxs) ==
    IF config.query_support_split_path # "None"
    THEN Samples("idxs", <<>>, <<>>, <<>>,
                 disk.query_support.query_idxs, disk.query_support.support_idxs)
    ELSE LET support_upperbound == Ceil(config.support_ratio, Len(list))
             shuffled == [i \in 1..Len(list) |-> list[idxs[i]]]
         IN  Samples("pools", <<>>,
                     SubSeq(shuffled, 1, support_upperbound),
                     SubSeq(shuffled, support_upperbound + 1, Len(list)),
                     <<>>, <<>>)

\* split_train_val(data_list), idxs being the shuffled indices
split_train_val(list, idxs) ==
    LET train_upperbound == Ceil(config.train_val_split_ratio, Len(list))
        shuffled == [i \in 1..Len(list) |-> list[idxs[i]]]
    IN  [train |-> SubSeq(shuffled, 1, train_upperbound),
         val |-> SubSeq(shuffled, train_upperbound + 1, Len(list))]

\* a variant of global_to_local_labels that counts from one
global_to_local_labels_from_one(stage_labels) ==
    LET s == sorted(stage_labels)
    IN  [label \in Elements(s) |->
            CHOOSE ind \in 1..Len(s) :
                s[ind] = label /\ \A later \in (ind + 1)..Len(s) : s[later] # label]

\* {label: ind for ind, label in enumerate(sorted(stage_labels))}
global_to_local_labels(stage_labels) ==
    LET s == sorted(stage_labels)
    IN  [label \in Elements(s) |->
            (CHOOSE ind \in 1..Len(s) :
                s[ind] = label /\ \A later \in (ind + 1)..Len(s) : s[later] # label) - 1]

\* convert_to_local_labels(samples, base_or_novel) on graphs labelled y: the
\* call, the labels it leaves, and how it ended.  The loop stops at the first
\* sample whose label is no key of the mapping.
convert_to_local_labels(samples, base_or_novel, y) ==
    LET stage_labels == labels_split[base_or_novel]
        mapping == global_to_local_labels(stage_labels)
        missing == {i \in 1..Len(samples) : y[samples[i]] \notin DOMAIN mapping}
        done == IF missing = {} THEN Len(samples)
                ELSE (CHOOSE i \in missing : \A j \in missing : i <= j) - 1
        converted == {samples[i] : i \in 1..done}
    IN  [called |-> TRUE, stage |-> base_or_novel, stage_labels |-> stage_labels,
         samples |-> samples, before |-> y,
         after |-> [g \in DOMAIN y |-> IF g \in converted THEN mapping[y[g]] ELSE y[g]],
         mapping |-> mapping,
         status |-> IF missing = {} THEN "ok" ELSE "KeyError"]

\* a variant of local_novel_labels that keeps the global labels
local_novel_labels_global(novel_labels) == sorted(novel_labels)

\* [ind for ind, label in enumerate(sorted(self.novel_labels))]
local_novel_labels(novel_labels) ==
    [i \in 1..Len(sorted(novel_labels)) |-> i - 1]

\* a variant of the transfer setup that builds each stage's datasets first
TransferSetupDatasetsFirst ==
    <<"build_source", "convert_base", "build_test", "convert_novel">>

\* the statements of GraphTransferDataModule.setup after the split, in order
TransferSetup == <<"convert_base", "build_source", "convert_novel", "build_test">>

\* the statement that follows statement pc, "idle" after the last
NextStatement(pc) ==
    LET at == CHOOSE i \in 1..Len(TransferSetup) : TransferSetup[i] = pc
    IN  IF at = Len(TransferSetup) THEN "idle" ELSE TransferSetup[at + 1]

\* setup(stage) of either datamodule, up to where the transfer setup first
\* converts labels
SetupCall(stage) ==
    /\ dm_status = "constructed"
    /\ setup_pc = "idle"
    /\ IF stage \notin {"None", "fit"}
       THEN /\ setup_status' = "ok"
            /\ UNCHANGED <<split_samples, train_dataset, test_datasets, setup_pc, remapped>>
       ELSE LET split == split_base_novel_samples(data_list_by_label, labels_split)
            IN  /\ split_samples' = split
                /\ remapped' = {}
                /\ IF config.variant = "meta"
                   THEN \E idxs \in Shuffles(Len(split.base)) :
                        LET base_samples ==
                                IF config.separated_query_support
                                THEN split_query_support(split.base, idxs)
                                ELSE ListSamples(split.base)
                        IN  /\ train_dataset' =
                                   Dataset("IterableEpisodicDataset", base_samples,
                                           config.num_train_episodes, labels_split.base,
                                           config.separated_query_support, graph_y)
                            /\ test_datasets' =
                                   <<Dataset("MapEpisodicDataset", ListSamples(split.novel),
                                             config.num_train_episodes, labels_split.novel,
                                             FALSE, graph_y)>>
                            /\ setup_status' = "ok"
                            /\ UNCHANGED setup_pc
                   ELSE /\ setup_pc' = TransferSetup[1]
                        /\ setup_status' = "running"
                        /\ UNCHANGED <<train_dataset, test_datasets>>
    /\ UNCHANGED <<disk, classes_split_path, dm_status, classes_split, class_to_label_dict,
                   data_list, graph_y, labels_split, data_list_by_label,
                   config, val_datasets, remap, collator_vars, meta_vars, pl_vars, tl_vars>>

\* trainer or script calling datamodule.setup(stage)
Setup == \E stage \in Stages : SetupCall(stage)

\* datamodule.metadata: runs setup(stage="fit") while there is no train dataset
ReadMetadata ==
    /\ dm_status = "constructed"
    /\ setup_pc = "idle"
    /\ IF train_dataset = NoDataset THEN SetupCall("fit") ELSE UNCHANGED vars

\* the transfer setup moves on to its next statement, or returns
Advance ==
    /\ setup_pc' = NextStatement(setup_pc)
    /\ setup_status' = IF NextStatement(setup_pc) = "idle" THEN "ok" ELSE "running"

\* self.convert_to_local_labels(samples, base_or_novel), as a statement of
\* the transfer setup
Convert(samples, base_or_novel) ==
    LET call == convert_to_local_labels(samples, base_or_novel, graph_y)
    IN  /\ remap' = call
        /\ graph_y' = call.after
        /\ IF call.status = "ok"
           THEN /\ remapped' = remapped \cup {base_or_novel}
                /\ Advance
           ELSE \* the KeyError leaves setup
                /\ setup_pc' = "idle"
                /\ setup_status' = "KeyError"
                /\ UNCHANGED remapped
        /\ UNCHANGED <<disk, classes_split_path, dm_status, classes_split,
                       class_to_label_dict, data_list, labels_split, data_list_by_label,
                       split_samples, config, train_dataset, val_datasets, test_datasets,
                       collator_vars, meta_vars, pl_vars, tl_vars>>

ConvertBase ==
    /\ setup_pc = "convert_base"
    /\ Convert(split_samples.base, "base")

ConvertNovel ==
    /\ setup_pc = "convert_novel"
    /\ Convert(split_samples.novel, "novel")

\* split_train_val, then the train and the validation TransferSourceDataset
BuildSourceDatasets ==
    /\ setup_pc = "build_source"
    /\ \E idxs \in Shuffles(Len(split_samples.base)) :
           LET halves == split_train_val(split_samples.base, idxs)
           IN  /\ train_dataset' = Dataset("TransferSourceDataset", ListSamples(halves.train),
                                           0, <<>>, FALSE, graph_y)
               /\ val_datasets' = <<Dataset("TransferSourceDataset", ListSamples(halves.val),
                                            0, <<>>, FALSE, graph_y)>>
    /\ Advance
    /\ UNCHANGED <<disk, classes_split_path, dm_status, classes_split, class_to_label_dict,
                   data_list, graph_y, labels_split, data_list_by_label, split_samples,
                   config, test_datasets, remap, remapped, collator_vars, meta_vars, pl_vars, tl_vars>>

\* the test MapEpisodicDataset of the transfer setup
BuildTestDatasets ==
    /\ setup_pc = "build_test"
    /\ test_datasets' =
           <<Dataset("MapEpisodicDataset", ListSamples(split_samples.novel),
                     config.num_test_episodes, local_novel_labels(labels_split.novel),
                     FALSE, graph_y)>>
    /\ Advance
    /\ UNCHANGED <<disk, classes_split_path, dm_status, classes_split, class_to_label_dict,
                   data_list, graph_y, labels_split, data_list_by_label, split_samples,
                   config, train_dataset, val_datasets, remap, remapped,
                   collator_vars, meta_vars, pl_vars, tl_vars>>

(***************************************************************************)
(* Properties of the datamodules.                                          *)
(***************************************************************************)
\* C11: after construction and after any sequence of setup calls, of the
\* meta or of the transfer datamodule, every graph stored in
\* data_list_by_label under key k has label k.
C11_PoolLabelsMatchKeys ==
    \A i \in 1..Len(data_list_by_label.keys) :
        LET k == data_list_by_label.keys[i]
        IN  \A g \in Elements(data_list_by_label.get[k]) : graph_y[g] = k

C13_BaseNovelDisjoint ==
    dm_status = "constructed" =>
        /\ Elements(labels_split.base) \cap Elements(labels_split.novel) = {}
        /\ Elements(split_samples.base) \cap Elements(split_samples.novel) = {}

\* C14: convert_to_local_labels on a stage with labels L, given samples whose
\* labels are in L, maps the i-th smallest label of L to i: the mapping it
\* returns is an order-preserving bijection from L onto 0..|L|-1, and
\* afterwards every sample passed in carries the local label of its former
\* global label, a label in [0, |L|).
C14_LocalLabels ==
    LET L == Elements(remap.stage_labels)
        mapping == remap.mapping
        passed == Elements(remap.samples)
    IN  (remap.called /\ \A g \in passed : remap.before[g] \in L) =>
            /\ remap.status = "ok"
            /\ DOMAIN mapping = L
            /\ \A label \in L : mapping[label] = Cardinality({k \in L : k < label})
            /\ {mapping[label] : label \in L} = 0..(Cardinality(L) - 1)
            /\ \A k, label \in L : k < label => mapping[k] < mapping[label]
            /\ \A g \in passed :
                   /\ remap.after[g] = mapping[remap.before[g]]
                   /\ remap.after[g] \in 0..(Cardinality(L) - 1)

C14_Witness ==
    /\ remap.called
    /\ remap.status = "ok"
    /\ Cardinality(Elements(remap.stage_labels)) = 2
    /\ \E g, h \in Elements(remap.samples) :
           /\ remap.before[g] = 2 /\ remap.after[g] = 1
           /\ remap.before[h] = 1 /\ remap.after[h] = 0

\* the labels 0..|stage labels|-1
LocalRange(stage_labels) == 0..(Cardinality(Elements(stage_labels)) - 1)

\* every graph handed to the dataset carried a label of the range then
BuiltFromLabels(dataset, range) ==
    \A i \in 1..Len(dataset.sample_labels) : dataset.sample_labels[i] \in range

\* C15: in GraphTransferDataModule.setup the remapping of a stage's samples is
\* completed before a dataset of that stage is constructed: when the train
\* and validation datasets are built the base samples have been remapped by
\* this call and carry local labels, and when the test dataset is built the
\* novel samples have been remapped by this call and carry local labels.
C15_RemapBeforeDatasets ==
    [][/\ (setup_pc = "build_source" /\ setup_pc' # setup_pc) =>
              /\ "base" \in remapped
              /\ BuiltFromLabels(train_dataset', LocalRange(labels_split.base))
              /\ \A i \in 1..Len(val_datasets') :
                     BuiltFromLabels(val_datasets'[i], LocalRange(labels_split.base))
       /\ (setup_pc = "build_test" /\ setup_pc' # setup_pc) =>
              /\ "novel" \in remapped
              /\ \A i \in 1..Len(test_datasets') :
                     BuiltFromLabels(test_datasets'[i], LocalRange(labels_split.novel))]_vars

C15_Witness ==
    /\ config.variant = "transfer"
    /\ setup_status = "ok"
    /\ remapped = {"base", "novel"}
    /\ train_dataset.kind = "TransferSourceDataset"
    /\ Len(val_datasets) = 1
    /\ Len(test_datasets) = 1
    /\ \E i \in 1..Len(test_datasets[1].sample_labels) :
           test_datasets[1].sample_labels[i] #
               disk.dataset.ys[test_datasets[1].samples.list[i]]

\* (ratio.num * n) \div ratio.den: math.floor(ratio * n)
Floor(ratio, n) == (ratio.num * n) \div ratio.den

\* C16: in separated query/support mode the graphs of each class are split
\* into a support sub-pool and a query sub-pool that are disjoint and together
\* hold all graphs of the class, the support share of every class being the
\* one support_ratio fixes.
C16_PerClassSupportShare ==
    (train_dataset.kind = "IterableEpisodicDataset"
        /\ train_dataset.separated_query_support) =>
        /\ train_dataset.samples.form = "pools"
        /\ \A label \in Elements(labels_split.base) :
               LET of_class == {g \in Elements(split_samples.base) : graph_y[g] = label}
                   supports == {g \in Elements(train_dataset.samples.supports) :
                                   graph_y[g] = label}
                   queries == {g \in Elements(train_dataset.samples.queries) :
                                  graph_y[g] = label}
               IN  /\ supports \cap queries = {}
                   /\ supports \cup queries = of_class
                   /\ Cardinality(supports) \in
                          {Floor(config.support_ratio, Cardinality(of_class)),
                           Ceil(config.support_ratio, Cardinality(of_class))}

\* the episodic datasets the datamodule holds
EpisodicDatasets ==
    {d \in {train_dataset} \cup Elements(test_datasets) :
        d.kind \in {"IterableEpisodicDataset", "MapEpisodicDataset"}}

\* C17: in both datamodules the training dataset is built with
\* num_train_episodes episodes and every test dataset with num_test_episodes
\* episodes.
C17_EpisodeCounts ==
    /\ train_dataset \in EpisodicDatasets =>
           train_dataset.n_episodes = config.num_train_episodes
    /\ \A i \in 1..Len(test_datasets) :
           test_datasets[i].n_episodes = config.num_test_episodes

\* C18: every graph handed to an episodic dataset that a setup constructs
\* carries, when the dataset is constructed, a label that is one of the
\* stage_labels handed to the same dataset.
C18_SampleLabelsInStageLabels ==
    \A d \in EpisodicDatasets : BuiltFromLabels(d, Elements(d.stage_labels))

C18_Witness ==
    /\ config.variant = "transfer"
    /\ Len(test_datasets) = 1
    /\ test_datasets[1].stage_labels = <<0, 1>>
    /\ labels_split.novel = <<1, 2>>
    /\ Elements(test_datasets[1].sample_labels) = {0, 1}

\* C20: the remapping is applied once per sample over the lifetime of a
\* GraphTransferDataModule: after any sequence of metadata accesses and setup
\* calls, every setup call has completed without error and every base and
\* novel sample carries the local label of its original global label.
C20_RemapOnce ==
    (config.variant = "transfer" /\ remap.called /\ setup_pc = "idle") =>
        /\ setup_status = "ok"
        /\ \A stage \in {"base", "novel"} :
               \A g \in Elements(split_samples[stage]) :
                   /\ disk.dataset.ys[g] \in Elements(labels_split[stage])
                   /\ graph_y[g] =
                          global_to_local_labels(labels_split[stage])[disk.dataset.ys[g]]

\* C22: whether or not a query/support split file is configured,
\* split_query_support returns a support sub-pool and a query sub-pool of the
\* samples it was given, disjoint and together holding every given sample
\* once; split on the fly, the support sub-pool has
\* ceil(support_ratio * number of samples) elements.
C22_SubPoolsEitherWay ==
    (train_dataset.kind = "IterableEpisodicDataset"
        /\ train_dataset.separated_query_support) =>
        LET result == train_dataset.samples
            given == split_samples.base
        IN  /\ result.form = "pools"
            /\ Elements(result.supports) \cap Elements(result.queries) = {}
            /\ Elements(result.supports) \cup Elements(result.queries) = Elements(given)
            /\ Len(result.supports) + Len(result.queries) = Len(given)
            /\ config.query_support_split_path = "None" =>
                   Len(result.supports) = Ceil(config.support_ratio, Len(given))

\* C23: in both datamodules, for any sequence of setup calls with any stage,
\* once a setup call has returned train_dataset and test_datasets are both
\* populated.
C23_DatasetsPopulated ==
    (dm_status = "constructed" /\ setup_pc = "idle" /\ setup_status = "ok") =>
        /\ train_dataset # NoDataset
        /\ test_datasets # <<>>

(***************************************************************************)
(* DMLBaseline.map_pred_labels_to_global.                                  *)
(***************************************************************************)
NoMapped == [status |-> "none", labels |-> <<>>]

\* a variant of map_pred_labels_to_global that reads every episode's
\* predictions against the labels of the first episode
map_pred_labels_to_global_first_episode(preds, batch_global_labels, num_episodes) ==
    IF Len(batch_global_labels) % num_episodes # 0 \/ Len(preds) % num_episodes # 0
    THEN [NoMapped EXCEPT !.status = "RuntimeError"]
    ELSE LET global_labels_per_episode ==
                 Reshape(batch_global_labels, Len(batch_global_labels) \div num_episodes)
             preds_per_episode == Reshape(preds, Len(preds) \div num_episodes)
             width == Len(batch_global_labels) \div num_episodes
         IN  IF \E i \in 1..Len(preds) : preds[i] >= width
             THEN [NoMapped EXCEPT !.status = "IndexError"]
             ELSE [status |-> "ok",
                   labels |->
                       Cat([episode_num \in 1..num_episodes |->
                               [j \in 1..Len(preds_per_episode[episode_num]) |->
                                   global_labels_per_episode[1]
                                       [preds_per_episode[episode_num][j] + 1]]])]

\* map_pred_labels_to_global(pred_labels, batch_global_labels, num_episodes)
\* for predictions that are no negative numbers: the tensor it returns, or the
\* exception of a reshape that does not divide or of an index out of range
map_pred_labels_to_global(preds, batch_global_labels, num_episodes) ==
    IF Len(batch_global_labels) % num_episodes # 0 \/ Len(preds) % num_episodes # 0
    THEN [NoMapped EXCEPT !.status = "RuntimeError"]
    ELSE LET global_labels_per_episode ==
                 Reshape(batch_global_labels, Len(batch_global_labels) \div num_episodes)
             preds_per_episode == Reshape(preds, Len(preds) \div num_episodes)
             width == Len(batch_global_labels) \div num_episodes
         IN  IF \E i \in 1..Len(preds) : preds[i] >= width
             THEN [NoMapped EXCEPT !.status = "IndexError"]
             ELSE [status |-> "ok",
                   labels |->
                       Cat([episode_num \in 1..num_episodes |->
                               [j \in 1..Len(preds_per_episode[episode_num]) |->
                                   global_labels_per_episode[episode_num]
                                       [preds_per_episode[episode_num][j] + 1]]])]

\* the lightning module is not in use
PlIdle ==
    /\ pred_labels = <<>>
    /\ mapped_labels = NoMapped

\* predictions for the queries of a batch: the batch's own label_targets,
\* one class for every query, the classes in turn, and a class too many
Predictions(b, hp) ==
    LET n == Len(b.label_targets)
        C == hp.num_classes_per_episode
    IN  {b.label_targets,
         [i \in 1..n |-> 0],
         [i \in 1..n |-> C - 1],
         [i \in 1..n |-> (i - 1) % C],
         [i \in 1..n |-> C]}

\* map_pred_labels_to_global on predictions for the collated batch and on
\* the batch's labels
MapPredLabels ==
    /\ batch.status = "ok"
    /\ \E preds \in Predictions(batch, episode_hparams) :
           /\ pred_labels' = preds
           /\ mapped_labels' =
                  map_pred_labels_to_global(preds, batch.labels, batch.num_episodes)
    /\ UNCHANGED <<collator_vars, meta_vars, dm_vars, tl_vars>>

\* C19: for a batch of B episodes with N labels and N*Q queries each and
\* predictions in 0..N-1, map_pred_labels_to_global returns B*N*Q labels, the
\* one of the j-th query of episode e being the label at the predicted index
\* in episode e's block of the batch labels; and if every episode's labels
\* are N distinct values that hold its queries' labels, the function applied
\* to the batch's own label_targets returns the queries' true labels.
C19_MapPredLabels ==
    (mapped_labels.status # "none" /\ QueriesLabelsShaped
        /\ \A i \in 1..Len(pred_labels) : pred_labels[i] \in 0..(N - 1)) =>
        /\ mapped_labels.status = "ok"
        /\ Len(pred_labels) = B * N * Q
        /\ Len(mapped_labels.labels) = B * N * Q
        /\ \A e \in 1..B : \A j \in 1..(N * Q) :
               mapped_labels.labels[(e - 1) * N * Q + j] =
                   batch.labels[(e - 1) * N + pred_labels[(e - 1) * N * Q + j] + 1]
        /\ (LabelsDistinctAndCovering /\ pred_labels = batch.label_targets) =>
               \A e \in 1..B : \A j \in 1..(N * Q) :
                   mapped_labels.labels[(e - 1) * N * Q + j] = episode_list[e].queries[j].y

C19_Witness ==
    /\ mapped_labels.status = "ok"
    /\ QueriesLabelsShaped
    /\ LabelsDistinctAndCovering
    /\ pred_labels = batch.label_targets
    /\ B = 2
    /\ N = 2
    /\ episode_list[1].labels # episode_list[2].labels
    /\ mapped_labels.labels = <<0, 1, 1, 0>>

(***************************************************************************)
(* TransferLearningTarget: construction and the hooks of one training      *)
(* batch.  The state of a module (parameters and buffers) is one value; the *)
(* trainer calls on_train_batch_start, training_step with the optimizer     *)
(* step, and on_train_batch_end, batch after batch.                         *)
(***************************************************************************)
ParamValues == 0..MaxParam

\* the embedder: its state, whether it is in training mode, and whether its
\* parameters require gradients
Embedder(state, training, requires_grad) ==
    [state |-> state, training |-> training, requires_grad |-> requires_grad]

\* self.state_dict()
StateDict(embedder_state, classifier_state) ==
    [embedder |-> embedder_state, classifier |-> classifier_state]

NoFile == [exists |-> FALSE, state_dict |-> StateDict(0, 0)]
NoEval == [ran |-> FALSE, state_dict |-> StateDict(0, 0)]

\* freeze_embedder()
freeze_embedder(e) == Embedder(e.state, FALSE, FALSE)

\* the states a forward pass and an optimizer step can leave the embedder
\* in: a frozen embedder in eval mode keeps its state
EmbedderAfter(e, optimizer_step) ==
    IF e.training \/ (optimizer_step /\ e.requires_grad)
    THEN {Embedder(state, e.training, e.requires_grad) : state \in ParamValues}
    ELSE {e}

InitTarget ==
    /\ tl_pc = "new"
    /\ embedder \in {Embedder(state, training, requires_grad) :
                        state \in ParamValues, training \in BOOLEAN,
                        requires_grad \in BOOLEAN}
    /\ classifier = 0
    /\ initial_state_file \in
           {NoFile} \cup {[exists |-> TRUE, state_dict |-> StateDict(e, c)] :
                             e \in ParamValues, c \in ParamValues}
    /\ batch_hooks = <<>>
    /\ query_eval = NoEval

\* the transfer target is not in use
TargetIdle ==
    /\ tl_pc = "idle"
    /\ embedder = Embedder(0, FALSE, FALSE)
    /\ classifier = 0
    /\ initial_state_file = NoFile
    /\ batch_hooks = <<>>
    /\ query_eval = NoEval

\* TransferLearningTarget.__init__: freeze the embedder, build the
\* classifier, save the initial state
TargetConstruct ==
    /\ tl_pc = "new"
    /\ embedder' = freeze_embedder(embedder)
    /\ \E weights \in ParamValues :
           /\ classifier' = weights
           /\ initial_state_file' =
                  [exists |-> TRUE, state_dict |-> StateDict(embedder.state, weights)]
    /\ tl_pc' = "ready"
    /\ UNCHANGED <<batch_hooks, query_eval, collator_vars, meta_vars, dm_vars, pl_vars>>

\* the trainer puts the module in training mode before an epoch
TrainerTrainMode ==
    /\ tl_pc = "ready"
    /\ embedder' = Embedder(embedder.state, TRUE, embedder.requires_grad)
    /\ UNCHANGED <<tl_pc, classifier, initial_state_file, batch_hooks, query_eval,
                   collator_vars, meta_vars, dm_vars, pl_vars>>

\* a variant of on_train_batch_start that only freezes the embedder
OnTrainBatchStartNoReset ==
    /\ tl_pc = "ready"
    /\ embedder' = freeze_embedder(embedder)
    /\ batch_hooks' = <<"reset_fine_tuning", "freeze_embedder">>
    /\ tl_pc' = "started"
    /\ UNCHANGED <<classifier, initial_state_file, query_eval,
                   collator_vars, meta_vars, dm_vars, pl_vars>>

\* on_train_batch_start: reset_fine_tuning, then freeze_embedder
OnTrainBatchStart ==
    /\ tl_pc = "ready"
    /\ initial_state_file.exists
    /\ embedder' = freeze_embedder(Embedder(initial_state_file.state_dict.embedder,
                                            embedder.training, embedder.requires_grad))
    /\ classifier' = initial_state_file.state_dict.classifier
    /\ batch_hooks' = <<"reset_fine_tuning", "freeze_embedder">>
    /\ tl_pc' = "started"
    /\ UNCHANGED <<initial_state_file, query_eval,
                   collator_vars, meta_vars, dm_vars, pl_vars>>

\* training_step on the batch's supports and the optimizer step on its loss
TrainingStep ==
    /\ tl_pc = "started"
    /\ embedder' \in EmbedderAfter(embedder, TRUE)
    /\ classifier' \in ParamValues
    /\ batch_hooks' = Append(batch_hooks, "training_step")
    /\ tl_pc' = "stepped"
    /\ UNCHANGED <<initial_state_file, query_eval,
                   collator_vars, meta_vars, dm_vars, pl_vars>>

\* on_train_batch_end: the forward pass on the batch's queries
OnTrainBatchEnd ==
    /\ tl_pc = "stepped"
    /\ query_eval' = [ran |-> TRUE, state_dict |-> StateDict(embedder.state, classifier)]
    /\ embedder' \in EmbedderAfter(embedder, FALSE)
    /\ batch_hooks' = Append(batch_hooks, "on_train_batch_end")
    /\ tl_pc' = "ready"
    /\ UNCHANGED <<classifier, initial_state_file,
                   collator_vars, meta_vars, dm_vars, pl_vars>>

\* C21: the state saved at construction is the module's state then and the
\* file is not written again; at the start of every training batch the
\* embedder and the classifier are back at the saved state and the embedder
\* is frozen, whatever the batches before did; and the query evaluation of a
\* batch runs after that batch's reset and training step, on the saved
\* embedder state.
C21_ResetEveryBatch ==
    [][/\ (tl_pc = "new" /\ tl_pc' = "ready") =>
              initial_state_file' =
                  [exists |-> TRUE, state_dict |-> StateDict(embedder'.state, classifier')]
       /\ tl_pc \notin {"new", "idle"} => initial_state_file' = initial_state_file
       /\ tl_pc' = "started" =>
              /\ StateDict(embedder'.state, classifier') = initial_state_file.state_dict
              /\ ~embedder'.training
              /\ ~embedder'.requires_grad
       /\ (tl_pc = "stepped" /\ tl_pc' = "ready") =>
              /\ batch_hooks = <<"reset_fine_tuning", "freeze_embedder", "training_step">>
              /\ query_eval'.state_dict =
                     StateDict(initial_state_file.state_dict.embedder, classifier)]_vars

\* a batch starts from the saved state after an earlier batch was fine-tuned
\* away from it
C21_Witness ==
    /\ tl_pc = "started"
    /\ query_eval.ran
    /\ query_eval.state_dict.classifier # initial_state_file.state_dict.classifier
    /\ classifier = initial_state_file.state_dict.classifier

(***************************************************************************)
(* Specifications: one per subsystem; the other subsystems stay idle.      *)
(***************************************************************************)
Init == InitCollator /\ MetaIdle /\ DataModuleIdle /\ PlIdle /\ TargetIdle

Next == Collate

Spec == Init /\ [][Next]_vars

InitMeta == CollatorIdle /\ InitMetaData /\ DataModuleIdle /\ PlIdle /\ TargetIdle

NextMeta == MetaDataSave \/ MetaDataLoad

SpecMeta == InitMeta /\ [][NextMeta]_vars

InitData == CollatorIdle /\ MetaIdle /\ InitDataModule /\ PlIdle /\ TargetIdle

NextData ==
    \/ Construct
    \/ SplitBaseNovel
    \/ Setup
    \/ ReadMetadata
    \/ ConvertBase
    \/ BuildSourceDatasets
    \/ ConvertNovel
    \/ BuildTestDatasets

SpecData == InitData /\ [][NextData]_vars

\* a transfer datamodule whose split file names known classes, none twice
InitTransfer ==
    /\ InitData
    /\ config.variant = "transfer"
    /\ classes_split_path # "None"
    /\ Elements(disk.classes_split.base) \cup Elements(disk.classes_split.novel)
           \subseteq Classes
    /\ Elements(disk.classes_split.base) \cap Elements(disk.classes_split.novel) = {}

NextTransfer ==
    \/ Construct
    \/ Setup
    \/ ReadMetadata
    \/ ConvertBase
    \/ BuildSourceDatasets
    \/ ConvertNovel
    \/ BuildTestDatasets

SpecTransfer == InitTransfer /\ [][NextTransfer]_vars

\* a meta datamodule in separated query/support mode that splits on the fly
InitSeparated ==
    /\ InitData
    /\ config.variant = "meta"
    /\ config.separated_query_support
    /\ config.query_support_split_path = "None"
    /\ classes_split_path # "None"

NextSeparated == Construct \/ Setup \/ ReadMetadata

SpecSeparated == InitSeparated /\ [][NextSeparated]_vars

InitPred == InitCollator /\ MetaIdle /\ DataModuleIdle /\ PlIdle /\ TargetIdle

NextPred == Collate \/ MapPredLabels

SpecPred == InitPred /\ [][NextPred]_vars

InitFineTuning == CollatorIdle /\ MetaIdle /\ DataModuleIdle /\ PlIdle /\ InitTarget

NextFineTuning ==
    \/ TargetConstruct
    \/ TrainerTrainMode
    \/ OnTrainBatchStart
    \/ TrainingStep
    \/ OnTrainBatchEnd

SpecFineTuning == InitFineTuning /\ [][NextFineTuning]_vars

====
